---- MODULE Spec2Model ----
(***************************************************************************)
(* A model of the sudoku solver of solve_sudoku.c: the 9x9 table, the      *)
(* constraint predicates, the naked-single / hidden-single rules, one      *)
(* deduction pass (single_pass), the outer loop (solve) and the validator  *)
(* (valid) as main calls them.                                             *)
(*                                                                         *)
(* One step of the model is one call of select_allowed (on the next blank  *)
(* cell of the row-major sweep), one call of select_possible_in_row,       *)
(* select_possible_in_col or select_possible_in_block, one evaluation of   *)
(* the head of solve's loop, the return of single_pass, or main's call of  *)
(* valid.                                                                  *)
(***************************************************************************)
EXTENDS Integers, FiniteSets, Sequences, TLC

\* ------------------------------------------------------------------ sizes

\* Side of the table (the loops `i < 9`, `j < 9`, `num <= 9`).
N == 9

\* Side of a block (`row % 3`, `i += 3`).
B == 3

\* The initial value of prev_zeros in solve.
InitPrevZeros == 81

\* Input family: a hole of at most MaxHole blank cells anywhere in a solved
\* grid.
MaxHole == 2

\* Input family: at most MaxBadBlank leading blank cells in a grid that is
\* filled against the rules.
MaxBadBlank == 30

\* Input family: sparse puzzles giving every m-th cell, m up to MaxStride.
MaxStride == 4

\* The pass counter of the model stops the loop of solve at PassCap passes
\* (never reached by the code as written: see the pass bound).
PassCap == 90

Idx == 0 .. (N - 1)
Digits == 1 .. N
Cells == Idx \X Idx

\* ------------------------------------------------------- pure functions

\* number_of_empty_cells: the count of the zeros of the table.
number_of_empty_cells(t) == Cardinality({c \in Cells : t[c[1]][c[2]] = 0})

\* allowed_in_row: num is nowhere in the row.
allowed_in_row(t, row, num) == \A j \in Idx : t[row][j] # num

\* allowed_in_col with a loop that starts at i = 1.
allowed_in_col_from_one(t, col, num) == \A i \in 1 .. (N - 1) : t[i][col] # num

\* allowed_in_col: num is nowhere in the column.
allowed_in_col(t, col, num) == \A i \in Idx : t[i][col] # num

\* allowed_in_block with `||` for `&&`: only the cell (row, col) is skipped.
allowed_in_block_skip_cell(t, row, col, num) ==
    LET block_row_start == row - (row % B)
        block_col_start == col - (col % B)
    IN  \A i \in block_row_start .. (block_row_start + B - 1) :
            \A j \in block_col_start .. (block_col_start + B - 1) :
                ~((i # row \/ j # col) /\ t[i][j] = num)

\* allowed_in_block: num is at no cell of the block of (row, col) whose row
\* index differs from row and whose column index differs from col.
allowed_in_block(t, row, col, num) ==
    LET block_row_start == row - (row % B)
        block_col_start == col - (col % B)
    IN  \A i \in block_row_start .. (block_row_start + B - 1) :
            \A j \in block_col_start .. (block_col_start + B - 1) :
                ~(i # row /\ j # col /\ t[i][j] = num)

\* allowed_at_position without the block check.
allowed_at_position_no_block(t, row, col, num) ==
    allowed_in_row(t, row, num) /\ allowed_in_col(t, col, num)

\* allowed_at_position: num may be placed at the blank cell (row, col).
allowed_at_position(t, row, col, num) ==
    /\ allowed_in_row(t, row, num)
    /\ allowed_in_col(t, col, num)
    /\ allowed_in_block(t, row, col, num)

\* The digits the loop of select_allowed counts at (row, col).
AllowedDigits(t, row, col) ==
    {num \in Digits : allowed_at_position(t, row, col, num)}

\* The greatest element of a non-empty set of integers: the value a loop
\* that overwrites a variable in increasing order leaves in it.
Last(S) == CHOOSE x \in S : \A y \in S : y <= x

\* select_allowed storing count_allowed where it should store allowed.
select_allowed_writes_count(t, row, col, assign_random) ==
    LET S == AllowedDigits(t, row, col)
        count_allowed == Cardinality(S)
    IN  IF count_allowed = 1 \/ (count_allowed >= 1 /\ assign_random)
        THEN {count_allowed}
        ELSE {}

\* select_allowed writing whenever a digit is allowed, asked to guess or not.
select_allowed_writes_unasked(t, row, col, assign_random) ==
    LET S == AllowedDigits(t, row, col)
        count_allowed == Cardinality(S)
    IN  IF count_allowed >= 1
        THEN {Last(S)}
        ELSE {}

\* select_allowed: the set of digits the call may write at (row, col); empty
\* when it writes nothing.  `allowed` holds the last allowed num of the loop.
select_allowed_writes(t, row, col, assign_random) ==
    LET S == AllowedDigits(t, row, col)
        count_allowed == Cardinality(S)
    IN  IF count_allowed = 1 \/ (count_allowed >= 1 /\ assign_random)
        THEN {Last(S)}
        ELSE {}

\* select_possible_in_row with the block of the cell left unchecked.
possible_in_row_no_block(t, row, num) ==
    {j \in Idx : t[row][j] = 0 /\ allowed_in_col(t, j, num)}

\* select_possible_in_row: the columns of the row where num may be placed.
possible_in_row(t, row, num) ==
    {j \in Idx : /\ t[row][j] = 0
                 /\ allowed_in_col(t, j, num)
                 /\ allowed_in_block(t, row, j, num)}

\* select_possible_in_row writing at `count_possible >= 1`: num is placed at
\* the last possible column also when there are several.
select_possible_in_row_any_count(t, row, num) ==
    IF ~allowed_in_row(t, row, num)
    THEN {}
    ELSE LET P == possible_in_row(t, row, num)
         IN  IF Cardinality(P) >= 1 THEN {<<row, Last(P)>>} ELSE {}

\* select_possible_in_row: the cell written, as a set (empty: no write).
select_possible_in_row(t, row, num) ==
    IF ~allowed_in_row(t, row, num)
    THEN {}
    ELSE LET P == possible_in_row(t, row, num)
         IN  IF Cardinality(P) = 1 THEN {<<row, Last(P)>>} ELSE {}

\* select_possible_in_col without the test `table[i][col] == 0`.
possible_in_col_any_cell(t, col, num) ==
    {i \in Idx : allowed_in_row(t, i, num) /\ allowed_in_block(t, i, col, num)}

\* select_possible_in_col: the rows of the column where num may be placed.
possible_in_col(t, col, num) ==
    {i \in Idx : /\ t[i][col] = 0
                 /\ allowed_in_row(t, i, num)
                 /\ allowed_in_block(t, i, col, num)}

select_possible_in_col(t, col, num) ==
    IF ~allowed_in_col(t, col, num)
    THEN {}
    ELSE LET P == possible_in_col(t, col, num)
         IN  IF Cardinality(P) = 1 THEN {<<Last(P), col>>} ELSE {}

\* select_possible_in_block: the cells of the block starting at (row, col)
\* where num may be placed.
possible_in_block(t, row, col, num) ==
    {c \in (row .. (row + B - 1)) \X (col .. (col + B - 1)) :
        t[c[1]][c[2]] = 0 /\ allowed_at_position(t, c[1], c[2], num)}

select_possible_in_block(t, row, col, num) ==
    IF ~allowed_in_block(t, row, col, num)
    THEN {}
    ELSE LET P == possible_in_block(t, row, col, num)
         IN  IF Cardinality(P) = 1 THEN P ELSE {}

\* The frequency array of valid over a list of cells.
frequency(t, cs) ==
    [d \in Digits |-> Cardinality({c \in cs : t[c[1]][c[2]] = d})]

expected_frequency == [d \in Digits |-> 1]

\* valid without its loop over the blocks.
valid_no_blocks(t) ==
    /\ \A c \in Cells : ~(t[c[1]][c[2]] < 1 \/ t[c[1]][c[2]] > N)
    /\ \A i \in Idx : frequency(t, {i} \X Idx) = expected_frequency
    /\ \A j \in Idx : frequency(t, Idx \X {j}) = expected_frequency

\* valid without its loop over the columns.
valid_no_cols(t) ==
    /\ \A c \in Cells : ~(t[c[1]][c[2]] < 1 \/ t[c[1]][c[2]] > N)
    /\ \A i \in Idx : frequency(t, {i} \X Idx) = expected_frequency
    /\ \A i \in {0, 3, 6} : \A j \in {0, 3, 6} :
           frequency(t, (i .. (i + B - 1)) \X (j .. (j + B - 1)))
               = expected_frequency

\* valid: every cell in 1..9, then the frequency array of every row, every
\* column and every block equal to expected_frequency.
valid(t) ==
    /\ \A c \in Cells : ~(t[c[1]][c[2]] < 1 \/ t[c[1]][c[2]] > N)
    /\ \A i \in Idx : frequency(t, {i} \X Idx) = expected_frequency
    /\ \A j \in Idx : frequency(t, Idx \X {j}) = expected_frequency
    /\ \A i \in {0, 3, 6} : \A j \in {0, 3, 6} :
           frequency(t, (i .. (i + B - 1)) \X (j .. (j + B - 1)))
               = expected_frequency

\* ------------------------------------------------------------- inputs

\* A solved grid.
SolvedGrid ==
    [r \in Idx |-> [c \in Idx |-> ((B * (r % B) + (r \div B) + c) % N) + 1]]

\* g with the digits of the cells a and b exchanged.
Swapped(g, a, b) ==
    [r \in Idx |-> [c \in Idx |->
        IF <<r, c>> = a THEN g[b[1]][b[2]]
        ELSE IF <<r, c>> = b THEN g[a[1]][a[2]]
        ELSE g[r][c]]]

\* Filled grids that break the rules: two digits of one row of SolvedGrid
\* exchanged inside a block (two columns repeat a digit), two digits of one
\* column exchanged inside a block (two rows repeat a digit), and a latin
\* square (rows and columns are right, every block repeats digits).
BadGrids ==
    {Swapped(SolvedGrid, <<N - 1, N - 2>>, <<N - 1, N - 1>>),
     Swapped(SolvedGrid, <<N - 2, N - 1>>, <<N - 1, N - 1>>),
     [r \in Idx |-> [c \in Idx |-> ((r + c) % N) + 1]]}

\* A grid as read_sudoku builds it from the puzzle text: the cells of the
\* interval [lo, lo + k) in row-major order are '-' (0), the others digits.
Blanked(g, lo, k) ==
    [r \in Idx |-> [c \in Idx |->
        IF N * r + c >= lo /\ N * r + c < lo + k THEN 0 ELSE g[r][c]]]

\* A grid as read_sudoku builds it from a sparser puzzle text: only every
\* m-th cell in row-major order is a digit, the others are '-' (0).
Sparse(g, m) ==
    [r \in Idx |-> [c \in Idx |->
        IF (N * r + c) % m = 0 THEN g[r][c] ELSE 0]]

\* The puzzles the model reads: a solved grid with its first k cells blank
\* (from the solved grid, k = 0, to the empty grid, k = 81), a solved grid
\* with a short hole anywhere, the bad grids with leading blanks, and
\* sparse puzzles (every second cell given: singles complete it in two
\* passes).
Inputs ==
    {Blanked(SolvedGrid, 0, k) : k \in 0 .. (N * N)}
    \cup {Blanked(SolvedGrid, lo, k) : lo \in 0 .. (N * N - 1), k \in 0 .. MaxHole}
    \cup {Blanked(g, 0, k) : g \in BadGrids, k \in 0 .. MaxBadBlank}
    \cup {Sparse(SolvedGrid, m) : m \in 2 .. MaxStride}

\* --------------------------------------------------------------- state

VARIABLES
    table,          \* int table[9][9] of main
    pc,             \* where the program is
    prev_zeros,     \* solve: prev_zeros
    assign_random,  \* solve: assign_random
    zeros,          \* solve: zeros of the current iteration
    pass_random,    \* single_pass: its parameter assign_random
    cursor,         \* single_pass: 9 * i + j of the first loop
    num,            \* single_pass: num of the second loop
    unit,           \* select_possible: 0..8 rows, 9..17 columns, 18..26 blocks
    status,         \* main: "none", "EXIT_SUCCESS", "EXIT_FAILURE"
    stderr,         \* main: the lines it wrote to stderr
    input,          \* history: the table as read
    passes,         \* history: calls of single_pass so far
    authorized,     \* history: assign_random as passed to the latest single_pass
    after_stall,    \* history: the pass before the latest one filled no cell
    guesses,        \* history: guesses written by the latest single_pass
    last,           \* history: what the latest call of a rule wrote
    kinds           \* history: the kinds of the writes made so far

vars == <<table, pc, prev_zeros, assign_random, zeros, pass_random, cursor,
          num, unit, status, stderr, input, passes, authorized, after_stall,
          guesses, last, kinds>>

NoWrite == [kind |-> "none", row |-> 0, col |-> 0, num |-> 0, cands |-> {},
            writes |-> {}]

Init ==
    /\ table \in Inputs
    /\ input = table
    /\ pc = "solve"
    /\ prev_zeros = InitPrevZeros
    /\ assign_random = FALSE
    /\ zeros = 0
    /\ pass_random = FALSE
    /\ cursor = 0
    /\ num = 1
    /\ unit = 0
    /\ status = "none"
    /\ stderr = <<>>
    /\ passes = 0
    /\ authorized = FALSE
    /\ after_stall = FALSE
    /\ guesses = 0
    /\ last = NoWrite
    /\ kinds = {}

\* ------------------------------------------------------------- solve

\* solve without `if(assign_random) break;`: a stalled pass never ends it.
solve_head_no_give_up(z, pz, ar) ==
    IF z = 0
    THEN [break |-> TRUE, assign_random |-> ar]
    ELSE [break |-> FALSE, assign_random |-> (ar \/ z = pz)]

\* solve without the test `zeros == 0`: only a stalled pass ends it.
solve_head_no_zero_test(z, pz, ar) ==
    IF z = pz
    THEN IF ar
         THEN [break |-> TRUE, assign_random |-> ar]
         ELSE [break |-> FALSE, assign_random |-> TRUE]
    ELSE [break |-> FALSE, assign_random |-> ar]

\* solve giving up at the first stalled pass, without asking for a guess.
solve_head_no_guess(z, pz, ar) ==
    IF z = 0 \/ z = pz
    THEN [break |-> TRUE, assign_random |-> ar]
    ELSE [break |-> FALSE, assign_random |-> ar]

\* solve with the stall test inverted (`zeros != prev_zeros`).
solve_head_stall_inverted(z, pz, ar) ==
    IF z = 0
    THEN [break |-> TRUE, assign_random |-> ar]
    ELSE IF z # pz
         THEN IF ar
              THEN [break |-> TRUE, assign_random |-> ar]
              ELSE [break |-> FALSE, assign_random |-> TRUE]
         ELSE [break |-> FALSE, assign_random |-> ar]

\* The head of the loop of solve: whether it breaks, and assign_random
\* as the call of single_pass receives it.
solve_head(z, pz, ar) ==
    IF z = 0
    THEN [break |-> TRUE, assign_random |-> ar]
    ELSE IF z = pz
         THEN IF ar
              THEN [break |-> TRUE, assign_random |-> ar]
              ELSE [break |-> FALSE, assign_random |-> TRUE]
         ELSE [break |-> FALSE, assign_random |-> ar]

\* One evaluation of the head of the loop: break, or call single_pass.
SolveIter ==
    /\ pc = "solve"
    /\ LET z == number_of_empty_cells(table)
           h == solve_head(z, prev_zeros, assign_random)
       IN  /\ zeros' = z
           /\ assign_random' = h.assign_random
           /\ IF h.break
              THEN /\ pc' = "returned"
                   /\ UNCHANGED <<pass_random, cursor, passes, authorized,
                                  after_stall, guesses, last>>
              ELSE /\ passes < PassCap
                   /\ pc' = "sweep"
                   /\ pass_random' = h.assign_random
                   /\ cursor' = 0
                   /\ passes' = passes + 1
                   /\ authorized' = h.assign_random
                   /\ after_stall' = (passes > 0 /\ z = prev_zeros)
                   /\ guesses' = 0
                   /\ last' = NoWrite
    /\ UNCHANGED <<table, prev_zeros, num, unit, status, stderr, input, kinds>>

\* single_pass returned: prev_zeros = zeros, and back to the head.
SinglePassReturn ==
    /\ pc = "pass_end"
    /\ prev_zeros' = zeros
    /\ pc' = "solve"
    /\ UNCHANGED <<table, assign_random, zeros, pass_random, cursor, num,
                   unit, status, stderr, input, passes, authorized, after_stall,
                   guesses, last, kinds>>

\* ------------------------------------------------------- single_pass

\* The first blank cell at or after index k in row-major order (N * N: none).
NextBlank(t, k) ==
    LET S == {x \in k .. (N * N - 1) : t[x \div N][x % N] = 0}
    IN  IF S = {} THEN N * N ELSE CHOOSE x \in S : \A y \in S : x <= y

\* The body of the first loop without `assign_random = false;`.
sweep_call_keeps_random(t, row, col, ar) ==
    [writes |-> select_allowed_writes(t, row, col, ar),
     assign_random |-> ar]

\* The body of the first loop clearing assign_random only once a cell with
\* several candidates took the guess.
sweep_call_consumed_by_guess(t, row, col, ar) ==
    [writes |-> select_allowed_writes(t, row, col, ar),
     assign_random |-> (ar /\ Cardinality(AllowedDigits(t, row, col)) < 2)]

\* The body of the first loop at a blank cell: the call of select_allowed
\* and the value of assign_random after it.
sweep_call(t, row, col, ar) ==
    [writes |-> select_allowed_writes(t, row, col, ar),
     assign_random |-> FALSE]

\* The first loop of single_pass, up to and including its next call of
\* select_allowed.
SelectAllowed ==
    /\ pc = "sweep"
    /\ NextBlank(table, cursor) < N * N
    /\ LET k == NextBlank(table, cursor)
           row == k \div N
           col == k % N
           S == AllowedDigits(table, row, col)
           r == sweep_call(table, row, col, pass_random)
       IN  /\ pass_random' = r.assign_random
           /\ cursor' = k + 1
           /\ IF r.writes = {}
              THEN UNCHANGED <<table, guesses, kinds>> /\ last' = NoWrite
              ELSE \E d \in r.writes :
                     /\ table' = [table EXCEPT ![row][col] = d]
                     /\ guesses' = IF Cardinality(S) > 1 THEN guesses + 1 ELSE guesses
                     /\ last' = [kind |-> IF Cardinality(S) > 1 THEN "guess" ELSE "naked",
                                 row |-> row, col |-> col, num |-> d,
                                 cands |-> S, writes |-> r.writes]
                     /\ kinds' = kinds \cup {last'.kind}
    /\ UNCHANGED <<pc, prev_zeros, assign_random, zeros, num, unit, status, stderr,
                   input, passes, authorized, after_stall>>

\* The first loop is over: the second loop starts at num = 1.
SweepEnd ==
    /\ pc = "sweep"
    /\ NextBlank(table, cursor) = N * N
    /\ pc' = "possible"
    /\ cursor' = N * N
    /\ num' = 1
    /\ unit' = 0
    /\ last' = NoWrite
    /\ UNCHANGED <<table, prev_zeros, assign_random, zeros, pass_random,
                   status, stderr, input, passes, authorized, after_stall, guesses,
                   kinds>>

\* After a call of select_possible_in_*: the next unit, the next num, or
\* the end of single_pass.
Advance ==
    IF unit < 3 * N - 1
    THEN unit' = unit + 1 /\ UNCHANGED <<num, pc>>
    ELSE IF num < N
         THEN unit' = 0 /\ num' = num + 1 /\ UNCHANGED pc
         ELSE unit' = 0 /\ num' = 1 /\ pc' = "pass_end"

\* A hidden-single call wrote num at the cells W (at most one).
Place(W, kind) ==
    IF W = {}
    THEN UNCHANGED <<table, kinds>> /\ last' = NoWrite
    ELSE \E c \in W :
           /\ kinds' = kinds \cup {kind}
           /\ table' = [table EXCEPT ![c[1]][c[2]] = num]
           /\ last' = [kind |-> kind, row |-> c[1], col |-> c[2], num |-> num,
                       cands |-> AllowedDigits(table, c[1], c[2]),
                       writes |-> {num}]

SelectPossibleInRow ==
    /\ pc = "possible"
    /\ unit < N
    /\ Place(select_possible_in_row(table, unit, num), "row")
    /\ Advance
    /\ UNCHANGED <<prev_zeros, assign_random, zeros, pass_random, cursor,
                   status, stderr, input, passes, authorized, after_stall, guesses>>

SelectPossibleInCol ==
    /\ pc = "possible"
    /\ unit >= N /\ unit < 2 * N
    /\ Place(select_possible_in_col(table, unit - N, num), "col")
    /\ Advance
    /\ UNCHANGED <<prev_zeros, assign_random, zeros, pass_random, cursor,
                   status, stderr, input, passes, authorized, after_stall, guesses>>

SelectPossibleInBlock ==
    /\ pc = "possible"
    /\ unit >= 2 * N
    /\ LET b == unit - 2 * N
       IN  Place(select_possible_in_block(table, B * (b \div B), B * (b % B), num),
                 "block")
    /\ Advance
    /\ UNCHANGED <<prev_zeros, assign_random, zeros, pass_random, cursor,
                   status, stderr, input, passes, authorized, after_stall, guesses>>

\* -------------------------------------------------------------- main

\* main reporting success whatever valid answered.
main_report_always_solved(ok) ==
    [status |-> "EXIT_SUCCESS", stderr |-> <<>>]

\* The end of main: what it writes to stderr and the status it returns,
\* given the answer of valid.
main_report(ok) ==
    IF ~ok
    THEN [status |-> "EXIT_FAILURE", stderr |-> <<"Could not solve.\n">>]
    ELSE [status |-> "EXIT_SUCCESS", stderr |-> <<>>]

\* main after solve: valid decides the message and the exit status.
Validate ==
    /\ pc = "returned"
    /\ LET r == main_report(valid(table))
       IN  /\ status' = r.status
           /\ stderr' = stderr \o r.stderr
    /\ pc' = "exit"
    /\ UNCHANGED <<table, prev_zeros, assign_random, zeros, pass_random,
                   cursor, num, unit, input, passes, authorized, after_stall,
                   guesses, last, kinds>>

Next ==
    \/ SolveIter
    \/ SelectAllowed
    \/ SweepEnd
    \/ SelectPossibleInRow
    \/ SelectPossibleInCol
    \/ SelectPossibleInBlock
    \/ SinglePassReturn
    \/ Validate

Spec == Init /\ [][Next]_vars

\* The program is sequential and runs to completion: a step that can be
\* taken is taken.
FairSpec == Spec /\ WF_vars(Next)

\* ------------------------------------------- the older variant (part_002)

\* The older solver differs from solve_sudoku.c in solve and in main.  Its
\* single_pass, select_allowed and select_possible compute what the
\* functions above compute (its select_possible tests allowed_at_position
\* after allowed_in_row, allowed_in_col or allowed_in_block succeeded for
\* the unit), so its passes take the steps SelectAllowed .. SelectPossibleIn*
\* above.  The histories passes and after_stall are not kept for it, so a
\* program state that comes back is a model state that comes back.

\* Input family of the older variant: at most MaxOldBlank leading blank
\* cells in a solved grid or in a bad grid, and the empty grid.
MaxOldBlank == 3

OldInputs ==
    {Blanked(g, 0, k) : g \in {SolvedGrid} \cup BadGrids, k \in 0 .. MaxOldBlank}
    \cup {Blanked(SolvedGrid, 0, N * N)}

OldInit ==
    /\ table \in OldInputs
    /\ input = table
    /\ pc = "solve"
    /\ prev_zeros = InitPrevZeros
    /\ assign_random = FALSE
    /\ zeros = 0
    /\ pass_random = FALSE
    /\ cursor = 0
    /\ num = 1
    /\ unit = 0
    /\ status = "none"
    /\ stderr = <<>>
    /\ passes = 0
    /\ authorized = FALSE
    /\ after_stall = FALSE
    /\ guesses = 0
    /\ last = NoWrite
    /\ kinds = {}

\* The head of the loop of the older solve: it breaks only at zeros == 0,
\* and `random` is computed anew in each iteration.
old_solve_head(z, pz) ==
    [break |-> (z = 0), random |-> (z = pz)]

\* One evaluation of the head of the older loop: break, or call single_pass.
OldSolveIter ==
    /\ pc = "solve"
    /\ LET z == number_of_empty_cells(table)
           h == old_solve_head(z, prev_zeros)
       IN  /\ zeros' = z
           /\ IF h.break
              THEN /\ pc' = "returned"
                   /\ UNCHANGED <<pass_random, cursor, authorized, guesses, last>>
              ELSE /\ pc' = "sweep"
                   /\ pass_random' = h.random
                   /\ cursor' = 0
                   /\ authorized' = h.random
                   /\ guesses' = 0
                   /\ last' = NoWrite
    /\ UNCHANGED <<table, prev_zeros, assign_random, num, unit, status, stderr,
                   input, passes, after_stall, kinds>>

\* The older main after solve: it prints "Solved in ..." to stdout and
\* returns EXIT_SUCCESS without calling valid.
OldMain ==
    /\ pc = "returned"
    /\ status' = "EXIT_SUCCESS"
    /\ pc' = "exit"
    /\ UNCHANGED <<table, prev_zeros, assign_random, zeros, pass_random,
                   cursor, num, unit, stderr, input, passes, authorized,
                   after_stall, guesses, last, kinds>>

OldNext ==
    \/ OldSolveIter
    \/ SelectAllowed
    \/ SweepEnd
    \/ SelectPossibleInRow
    \/ SelectPossibleInCol
    \/ SelectPossibleInBlock
    \/ SinglePassReturn
    \/ OldMain

OldSpec == OldInit /\ [][OldNext]_vars

\* The program is sequential and runs to completion: a step that can be
\* taken is taken.
OldFairSpec == OldSpec /\ WF_vars(OldNext)

\* ------------------------------------------------------------ claims

\* More than the steps of the model in one iteration of the loop of solve:
\* its head, at most N * N calls of select_allowed, the end of the first
\* loop, 3 * N * N calls of select_possible_in_*, and the return.
PassLen == 4 * N * N + 6

\* A bound on the steps the program has left, given that solve calls
\* single_pass at most 83 times.
Rank ==
    CASE pc = "exit" -> 0
      [] pc = "returned" -> 1
      [] pc = "solve" -> 2 + (83 - passes) * PassLen
      [] pc = "pass_end" -> 3 + (83 - passes) * PassLen
      [] pc = "possible" ->
            4 + (83 - passes) * PassLen + (3 * N * N - ((num - 1) * 3 * N + unit))
      [] pc = "sweep" ->
            5 + (83 - passes) * PassLen + 3 * N * N + (N * N - cursor)

\* The cells filled since the table was read.
Filled == number_of_empty_cells(input) - number_of_empty_cells(table)

\* C1: solve terminates on every input, after at most 83 calls of
\* single_pass: every pass but two fills a cell, so the pass count never
\* exceeds 83, and every step of the program lowers a natural number.
C1_Terminates ==
    /\ [](passes <= 83 /\ passes <= Filled + 2 /\ Rank >= 0)
    /\ [][Rank' < Rank]_vars

C1_Witness == pc = "returned" /\ zeros > 0 /\ passes >= 14

\* The 27 units: the rows, the columns and the blocks, as sets of cells.
Units ==
    {{i} \X Idx : i \in Idx}
    \cup {Idx \X {j} : j \in Idx}
    \cup {(i .. (i + B - 1)) \X (j .. (j + B - 1)) : i \in {0, 3, 6}, j \in {0, 3, 6}}

\* No digit is repeated among the non-blank cells of any unit.
NoRepeat(t) ==
    \A u \in Units : \A a \in u : \A b \in u :
        (a # b /\ t[a[1]][a[2]] # 0) => t[a[1]][a[2]] # t[b[1]][b[2]]

\* A legal solution: every cell holds a digit, and the digits of every unit
\* are all of 1..9.
IsSolution(t) ==
    /\ \A c \in Cells : t[c[1]][c[2]] \in Digits
    /\ \A u \in Units : {t[c[1]][c[2]] : c \in u} = Digits

\* The blank cells of a table.
BlankCells(t) == {c \in Cells : t[c[1]][c[2]] = 0}

HasBlank(t) == \E c \in Cells : t[c[1]][c[2]] = 0

\* solve has returned.
Stopped == pc \in {"returned", "exit"}

\* C2: from an input with no repeated digit, solve never stops with zero
\* blank cells and a grid that valid rejects.
C2_DoneIsValid ==
    (Stopped /\ ~HasBlank(table) /\ NoRepeat(input)) => valid(table)

C2_Witness ==
    /\ pc = "exit" /\ ~HasBlank(table) /\ "guess" \in kinds
    /\ status = "EXIT_SUCCESS" /\ NoRepeat(input)

\* C3: from an input with no repeated digit, the table has no repeated
\* digit after every single write of a rule (a naked single, a guess, a
\* hidden single of a row, of a column or of a block).
C3_NoIllegalDigit ==
    (last.kind # "none" /\ NoRepeat(input)) => NoRepeat(table)

C3_Witness ==
    /\ last.kind # "none"
    /\ kinds = {"naked", "guess", "row", "col", "block"}
    /\ NoRepeat(input)

\* C4: valid accepts exactly the legal solutions; a grid with a blank cell
\* is rejected, and main's exit status is valid's answer.
C4_ValidIffSolution ==
    /\ valid(table) <=> IsSolution(table)
    /\ HasBlank(table) => ~valid(table)
    /\ pc = "exit" => (status = "EXIT_SUCCESS" <=> IsSolution(table))

C4_Witness == pc = "exit" /\ status = "EXIT_SUCCESS" /\ passes > 0

\* C5: on a filled valid input solve stops at once: no pass runs, no cell
\* changes, and the outcome is Solved.
C5_SolvedInputUntouched ==
    (~HasBlank(input) /\ IsSolution(input)) =>
        /\ passes = 0
        /\ table = input
        /\ pc \in {"solve", "returned", "exit"}
        /\ pc = "exit" => status = "EXIT_SUCCESS"

C5_Witness ==
    pc = "exit" /\ ~HasBlank(input) /\ IsSolution(input)

\* C6: from an input with a repeated digit, valid rejects the grid solve
\* stops with, whether it gave up or filled every cell.
C6_RepeatNeverSolved ==
    (Stopped /\ ~NoRepeat(input)) =>
        /\ ~valid(table)
        /\ pc = "exit" => status = "EXIT_FAILURE"

C6_Witness ==
    /\ pc = "exit" /\ passes > 0 /\ ~HasBlank(table)
    /\ ~NoRepeat(input)

\* C7: a pass is authorized to guess iff the pass right before it filled
\* no cell; the first pass is never authorized.
C7_GuessIffStalled == passes > 0 => (authorized <=> after_stall)

\* C8: a single pass writes at most one guess.
C8_OneGuessPerPass == guesses <= 1

C8_Witness ==
    /\ pc = "pass_end" /\ guesses = 1
    /\ \E c \in BlankCells(table) :
           Cardinality(AllowedDigits(table, c[1], c[2])) > 1

\* C9 as stated: when solve gives up, no blank cell has a candidate.
C9_GiveUpNoCandidates ==
    (Stopped /\ HasBlank(table)) =>
        \A c \in BlankCells(table) : AllowedDigits(table, c[1], c[2]) = {}

\* C9 amended: when solve gives up, the first blank cell in row-major
\* order has no candidate and no blank cell has exactly one.
C9_GiveUpFirstBlankStuck ==
    (Stopped /\ HasBlank(table)) =>
        LET k == NextBlank(table, 0)
        IN  /\ AllowedDigits(table, k \div N, k % N) = {}
            /\ \A c \in BlankCells(table) :
                   Cardinality(AllowedDigits(table, c[1], c[2])) # 1

C9_Witness ==
    /\ Stopped /\ HasBlank(table)
    /\ NoRepeat(input)
    /\ \E c \in BlankCells(table) :
           Cardinality(AllowedDigits(table, c[1], c[2])) > 1

\* C10: a guess at a cell with candidate set S may write any digit of S
\* and no other.
C10_GuessAnyCandidate == last.kind = "guess" => last.writes = last.cands

\* C11: a run in which no pass has stalled (assign_random was never set, and
\* it is never reset) consults no choice, so its final grid is a function of
\* the input alone: no pass is asked to guess, no write is a guess, every
\* write is the one outcome of its rule (a naked single writes the only
\* candidate of its cell), and the run ends with no blank cell.
C11_NoStallNoChoice ==
    ~assign_random =>
        /\ ~authorized /\ guesses = 0 /\ "guess" \notin kinds
        /\ last.kind # "none" =>
              /\ last.kind # "guess"
              /\ last.writes = {last.num}
              /\ last.kind = "naked" => last.cands = {last.num}
        /\ Stopped => ~HasBlank(table)

C11_Witness ==
    /\ pc = "exit" /\ ~assign_random /\ passes >= 2
    /\ status = "EXIT_SUCCESS"
    /\ "naked" \in kinds /\ kinds # {"naked"}

\* The puzzle of 81 '-' cells.
EmptyGrid == [r \in Idx |-> [c \in Idx |-> 0]]

\* C12: started on the empty grid, solve ends with every cell filled and
\* valid accepts the result.
C12_EmptyGridSolved ==
    (Stopped /\ input = EmptyGrid) => (~HasBlank(table) /\ valid(table))

\* C13: a cell that is not blank never changes: every write of a step
\* replaces a blank (0) by a digit, so givens and assigned digits (guesses
\* too) stay as they are and no cell is set back to blank.
C13_WriteOnceToBlank ==
    [][\A c \in Cells :
          table'[c[1]][c[2]] # table[c[1]][c[2]] =>
              table[c[1]][c[2]] = 0 /\ table'[c[1]][c[2]] \in Digits]_vars

\* A rule has just written a cell, passes after a guess was written.
C13_Witness ==
    /\ last.kind # "none" /\ "guess" \in kinds /\ passes >= 3
    /\ table[last.row][last.col] = last.num
    /\ input[last.row][last.col] = 0

\* g is a solved grid with one cell set to blank.
OneBlankOfSolved(g) ==
    /\ number_of_empty_cells(g) = 1
    /\ \E c \in BlankCells(g), d \in Digits :
           IsSolution([g EXCEPT ![c[1]][c[2]] = d])

\* C14: on a solved grid with exactly one cell blanked, solve runs exactly
\* one pass, that pass is not asked to guess, the blank cell gets back the
\* digit that completes the grid (the other cells are as read), and main
\* reports the table as solved.
C14_OneBlankOnePass ==
    OneBlankOfSolved(input) =>
        /\ passes <= 1 /\ ~authorized /\ ~assign_random /\ "guess" \notin kinds
        /\ Stopped =>
              /\ passes = 1
              /\ IsSolution(table)
              /\ \A c \in Cells : input[c[1]][c[2]] # 0 =>
                                    table[c[1]][c[2]] = input[c[1]][c[2]]
        /\ pc = "exit" => status = "EXIT_SUCCESS" /\ stderr = <<>>

C14_Witness ==
    /\ pc = "exit" /\ passes = 1 /\ status = "EXIT_SUCCESS"
    /\ OneBlankOfSolved(input)
    /\ input[4][4] = 0 /\ table[4][4] = SolvedGrid[4][4]

\* C15: when solve gave up (it returned with blank cells left), main writes
\* "Could not solve." to stderr and returns EXIT_FAILURE; it returns
\* EXIT_SUCCESS, with nothing on stderr, only for a table that valid accepts.
C15_GiveUpReportsFailure ==
    pc = "exit" =>
        /\ status \in {"EXIT_SUCCESS", "EXIT_FAILURE"}
        /\ HasBlank(table) =>
              status = "EXIT_FAILURE" /\ stderr = <<"Could not solve.\n">>
        /\ status = "EXIT_SUCCESS" => valid(table) /\ stderr = <<>>

\* main has reported a give-up on a puzzle that breaks no rule.
C15_Witness ==
    /\ pc = "exit" /\ status = "EXIT_FAILURE"
    /\ stderr = <<"Could not solve.\n">>
    /\ HasBlank(table) /\ authorized
    /\ NoRepeat(input)

\* The cells of the 3x3 block that contains (row, col).
BlockOf(row, col) ==
    ((B * (row \div B)) .. (B * (row \div B) + B - 1))
    \X ((B * (col \div B)) .. (B * (col \div B) + B - 1))

\* The values found in the row, the column and the block of (row, col).
SeenBy(t, row, col) ==
    {t[row][j] : j \in Idx} \cup {t[i][col] : i \in Idx}
    \cup {t[c[1]][c[2]] : c \in BlockOf(row, col)}

\* C16: for every blank cell (row, col) and digit d of the table at a loop
\* head of solve (the table as read and the table after each pass),
\* allowed_at_position(row, col, d) holds exactly when d is nowhere in the
\* row, the column and the block of the cell: the block cells that
\* allowed_in_block skips are covered by the row and column checks.
C16_AllowedIffUnseen ==
    pc = "solve" =>
        \A c \in BlankCells(table) :
            LET seen == SeenBy(table, c[1], c[2])
            IN  \A d \in Digits :
                    allowed_at_position(table, c[1], c[2], d) <=> d \notin seen

\* At a loop head after a pass, some blank cell has a digit that only the
\* block check excludes, and some blank cell has an allowed digit.
C16_Witness ==
    /\ pc = "solve" /\ passes >= 1
    /\ \E c \in BlankCells(table), d \in Digits :
           /\ allowed_in_row(table, c[1], d)
           /\ allowed_in_col(table, c[2], d)
           /\ ~allowed_in_block(table, c[1], c[2], d)
    /\ \E c \in BlankCells(table), d \in Digits :
           allowed_at_position(table, c[1], c[2], d)

\* C17 as stated: allowed_in_block(row, col, d) holds exactly when d is at no
\* cell of the block of (row, col) other than (row, col) itself (checked for
\* the blank cells of the table at a loop head of solve).
C17_BlockExceptCell ==
    pc = "solve" =>
        \A c \in BlankCells(table), d \in Digits :
            allowed_in_block(table, c[1], c[2], d) <=>
                \A x \in BlockOf(c[1], c[2]) \ {c} : table[x[1]][x[2]] # d

\* C17 amended: allowed_in_block(row, col, d) holds exactly when d is at no
\* cell of the block of (row, col) that is both in another row and in
\* another column than (row, col) (checked for every cell, blank or not, of
\* the table at a loop head of solve: select_possible_in_block calls it with
\* the first cell of a block).
C17_BlockExceptRowAndCol ==
    pc = "solve" =>
        \A c \in Cells, d \in Digits :
            allowed_in_block(table, c[1], c[2], d) <=>
                d \notin {table[x[1]][x[2]] :
                            x \in {y \in BlockOf(c[1], c[2]) :
                                     y[1] # c[1] /\ y[2] # c[2]}}

\* A blank cell with a digit that allowed_in_block accepts although it is in
\* the block, in the row or the column of the cell.
C17_Witness ==
    /\ pc = "solve" /\ passes >= 1
    /\ \E c \in BlankCells(table), d \in Digits :
           /\ allowed_in_block(table, c[1], c[2], d)
           /\ \E x \in BlockOf(c[1], c[2]) \ {c} : table[x[1]][x[2]] = d

\* The first loop of single_pass is about to visit the blank cell c, which
\* has two or more allowed digits.
AtMultiCandidate(c) ==
    /\ pc = "sweep"
    /\ NextBlank(table, cursor) = N * c[1] + c[2]
    /\ Cardinality(AllowedDigits(table, c[1], c[2])) >= 2

\* C18 as stated: in a pass asked to guess, when the sweep reaches a blank
\* cell with two or more candidates and no guess was made in this pass yet,
\* that cell receives a guess, whatever blank cells were visited before it.
C18_GuessAtFirstMultiCandidate ==
    [][\A c \in Cells :
          (AtMultiCandidate(c) /\ authorized /\ guesses = 0) =>
              /\ table'[c[1]][c[2]] # 0
              /\ last'.kind = "guess"]_vars

\* C18 amended: the request to guess is consumed by the first blank cell the
\* sweep visits, whatever its number of candidates: the request is pending
\* only before the first visit of a pass asked to guess, every visit clears
\* it, and a visited cell receives a guess exactly when the request is still
\* pending and the cell has two or more candidates.
C18_GuessOnlyAtFirstBlank ==
    /\ []((pc = "sweep" /\ pass_random) => (cursor = 0 /\ authorized))
    /\ [][(pc = "sweep" /\ NextBlank(table, cursor) < N * N) =>
             LET k == NextBlank(table, cursor)
                 S == AllowedDigits(table, k \div N, k % N)
             IN  /\ ~pass_random'
                 /\ (last'.kind = "guess") <=> (pass_random /\ Cardinality(S) >= 2)
                 /\ last'.kind = "guess" => table'[k \div N][k % N] \in S]_vars

\* In a pass asked to guess, an earlier blank cell was visited, no guess was
\* made, and the sweep is at a blank cell with two or more candidates.
C18_Witness ==
    /\ pc = "sweep" /\ authorized /\ guesses = 0
    /\ cursor > 0 /\ ~pass_random
    /\ \E c \in Cells : AtMultiCandidate(c) /\ N * c[1] + c[2] >= cursor
    /\ \E x \in 0 .. (cursor - 1) : input[x \div N][x % N] = 0

\* The digits other than the one just written that allowed_at_position
\* accepts at the cell just written, on the table as it is now.
OtherAllowedAtLast ==
    AllowedDigits(table, last.row, last.col) \ {last.num}

\* C19 as stated: after a forced assignment of d at (r, c), by the
\* naked-single rule or by a hidden-single rule of a row, column or block,
\* allowed_at_position(r, c, d') is false on the updated table for every
\* digit d' other than d.
C19_ForcedLeavesNoOther ==
    last.kind \in {"naked", "row", "col", "block"} => OtherAllowedAtLast = {}

\* C19 amended: after a naked-single assignment no other digit is allowed at
\* the cell; after a hidden-single assignment the digits still allowed at
\* the cell are the other candidates it had before, if any.
C19_NakedLeavesNoOther ==
    /\ last.kind = "naked" => OtherAllowedAtLast = {}
    /\ last.kind \in {"row", "col", "block"} =>
           OtherAllowedAtLast = last.cands \ {last.num}

\* A naked single was just written in a pass after the first, and hidden
\* singles were written before it.
C19_Witness ==
    /\ last.kind = "naked" /\ passes >= 2
    /\ table[last.row][last.col] = last.num
    /\ kinds \cap {"row", "col", "block"} # {}

\* C20: the older variant terminates on every input grid: solve returns and
\* main exits.
C20_OldTerminates == <>(pc = "exit")

\* The completions of an input are enumerated for inputs with at most
\* MaxSearch blank cells.
MaxSearch == 23

\* The valid completions of the grid t: the solutions that agree with t on
\* its filled cells, found by trying at the first blank cell every digit not
\* yet in its row, column or block.
RECURSIVE Completions(_)
Completions(t) ==
    IF ~HasBlank(t)
    THEN IF IsSolution(t) THEN {t} ELSE {}
    ELSE LET k == NextBlank(t, 0)
             row == k \div N
             col == k % N
         IN  UNION {Completions([t EXCEPT ![row][col] = d]) :
                      d \in Digits \ SeenBy(t, row, col)}

\* No guess has been written so far, on an input whose completions are
\* enumerated, and either a naked or hidden single has just been written or
\* solve is at its loop head after a pass.
GuessFree ==
    /\ "guess" \notin kinds
    /\ \/ last.kind \in {"naked", "row", "col", "block"}
       \/ pc = "solve" /\ passes >= 1
    /\ number_of_empty_cells(input) <= MaxSearch

\* C21: as long as no guess has been written, every digit in the table (a
\* given, a naked single or a hidden single) is the value of its cell in
\* every valid completion of the input; so an input that has a valid
\* completion keeps all its completions under the forced assignments.
C21_ForcedKeepsCompletions ==
    GuessFree =>
        \A h \in Completions(input) :
            \A c \in Cells :
                table[c[1]][c[2]] # 0 => h[c[1]][c[2]] = table[c[1]][c[2]]

\* Singles were assigned without any guess on an input with several valid
\* completions; the last one is a hidden single, and blank cells are left.
C21_Witness ==
    /\ GuessFree
    /\ last.kind \in {"row", "col", "block"} /\ "naked" \in kinds
    /\ HasBlank(table)
    /\ Cardinality(Completions(input)) >= 2

====
